---------------------------- MODULE Spec2Model ----------------------------
(***************************************************************************)
(* A model of depsolver's decision core:                                   *)
(*   - solver/sat.py    Literal / Clause and the naive backtracking        *)
(*                      is_satisfiable search (_try_evaluate);             *)
(*   - solver/policy.py DefaultPolicy.prefered_package_ids,                *)
(*                      prune_to_best_version and                          *)
(*                      cmp_by_priority_prefer_installed.                  *)
(* The recursion of _try_evaluate is unfolded into an explicit stack of    *)
(* frames, one step of the model per statement group of the function.      *)
(***************************************************************************)
EXTENDS Integers, Sequences, FiniteSets, TLC

VARIABLES
    \* ---- solver/sat.py: one call of is_satisfiable ----
    clauses,            \* the clause collection, in its iteration order
    variables,          \* the OrderedDict: a sequence of [name, val] items
    stack,              \* active _try_evaluate levels that have branched
    pc,                 \* "call" | "return" | "done" | "error"
    ret,                \* is_satisfiable flag returned by the last level
    entered,            \* history: `variables` when the returning level was entered
    initial,            \* history: the pre-seeded assignment
    steps,              \* history: statement groups executed so far
    result_variables    \* dict(result_variables) of is_satisfiable

satVars == <<clauses, variables, stack, pc, ret, entered, initial, steps,
            result_variables>>

\* ---- solver/sat.py: one construction of a Literal or Clause.from_string ----
VARIABLES
    litOp,              \* "none" | "Literal" | "from_string"
    litInput,           \* the string passed in, a sequence of characters
    litOutcome,         \* "none" | "ok" | "ValueError"
    litResult           \* the literals built: a set of [name, neg]

litVars == <<litOp, litInput, litOutcome, litResult>>

\* ---- solver/policy.py: one call of prefered_package_ids or prune_to_best_version ----
VARIABLES
    pool,               \* Pool.package_by_id: id -> [name, version]
    installed_map,      \* the ids that are installed
    polOp,              \* "none" | "prefered_package_ids" | "prune_to_best_version"
    decision_queue,     \* the package ids passed in
    polOutcome,         \* "none" | "ok" | "NotImplementedError" | "DepSolverError"
    polResult           \* the ids returned

polVars == <<pool, installed_map, polOp, decision_queue, polOutcome, polResult>>

\* ---- solver/policy.py: cmp_by_priority_prefer_installed(a, b) and (b, a) ----
VARIABLES
    cmpOp,              \* "none" | "cmp"
    cmpA, cmpB,         \* the two packages
    cmpInstalled,       \* installed_map of the call
    cmpIgnoreReplace,   \* ignore_replace of the call
    cmpAB, cmpBA        \* the value returned for (a, b) and for (b, a)

cmpVars == <<cmpOp, cmpA, cmpB, cmpInstalled, cmpIgnoreReplace, cmpAB, cmpBA>>

vars == <<satVars, litVars, polVars, cmpVars>>

\* No call of the respective component has been made
IdleSat ==
    /\ clauses = <<>> /\ variables = <<>> /\ stack = <<>> /\ pc = "idle"
    /\ ret = FALSE /\ entered = <<>> /\ initial = <<>> /\ steps = 0
    /\ result_variables = <<>>

IdleLit ==
    /\ litOp = "none" /\ litInput = <<>> /\ litOutcome = "none" /\ litResult = {}

IdlePol ==
    /\ pool = <<>> /\ installed_map = {} /\ polOp = "none"
    /\ decision_queue = <<>> /\ polOutcome = "none" /\ polResult = <<>>

IdleCmp ==
    /\ cmpOp = "none" /\ cmpA = <<>> /\ cmpB = <<>> /\ cmpInstalled = {}
    /\ cmpIgnoreReplace = FALSE /\ cmpAB = 0 /\ cmpBA = 0

(***************************************************************************)
(* Bounds of the model.                                                    *)
(***************************************************************************)
MaxClauses == 2

Names == {"a", "b", "c"}

None == "None"

(***************************************************************************)
(* sat.py: Literal, Not, Clause                                            *)
(***************************************************************************)
\* Literal(name) is [neg |-> FALSE], Not(name) is [neg |-> TRUE].
Literals == [name : Names, neg : BOOLEAN]

\* Clause.__init__: _literals is the frozenset of the literals, _literals_set
\* the frozenset of their names.  `names` is the iteration order of that
\* frozenset: some enumeration of the names, fixed per clause object.
literal_names(ls) == {l.name : l \in ls}

Orderings(S) ==
    {o \in [1..Cardinality(S) -> S] : \A i, j \in DOMAIN o : i # j => o[i] # o[j]}

\* The empty clause Clause([]), assertions Clause([l]) and the two-literal
\* clauses that Literal.__or__ builds.
LiteralSets == {{}} \cup {{l, m} : l, m \in Literals}

Clauses ==
    UNION {{[lits |-> ls, names |-> o] : o \in Orderings(literal_names(ls))} :
              ls \in LiteralSets}

is_assertion(c) == Cardinality(c.lits) = 1

\* `name in values` for the OrderedDict
InValues(n, values) == \E i \in DOMAIN values : values[i].name = n

\* values[name]
ValueOf(n, values) == values[CHOOSE i \in DOMAIN values : values[i].name = n].val

\* The keys of the mapping
Keys(values) == {values[i].name : i \in DOMAIN values}

\* Literal.evaluate / Not.evaluate, for a name that is in values
LiteralEvaluate(l, values) ==
    IF l.neg THEN ~ValueOf(l.name, values) ELSE ValueOf(l.name, values)

\* Clause.evaluate raises ValueError("literal ... value is undefined") as soon
\* as the loop meets a literal whose name is not in values; the loop has no
\* early exit, so it raises iff some literal's name is missing.
ClauseRaises(c, values) == \E l \in c.lits : ~InValues(l.name, values)

\* Clause.evaluate when it does not raise: ret |= literal.evaluate(values)
ClauseEvaluate(c, values) == \E l \in c.lits : LiteralEvaluate(l, values)

(***************************************************************************)
(* sat.py: _find_unset_variable, _try_evaluate, is_satisfiable             *)
(***************************************************************************)
\* The inner loop of _find_unset_variable over clause.literal_names
RECURSIVE FindInClause(_, _, _)
FindInClause(c, j, values) ==
    IF j > Len(c.names) THEN None
    ELSE IF ~InValues(c.names[j], values) THEN c.names[j]
    ELSE FindInClause(c, j + 1, values)

RECURSIVE FindFrom(_, _, _)
FindFrom(cs, i, values) ==
    IF i > Len(cs) THEN None
    ELSE LET l == FindInClause(cs[i], 1, values)
         IN IF l # None THEN l ELSE FindFrom(cs, i + 1, values)

\* Faulty variant: only the first clause is scanned for an unset variable
find_unset_first_clause_only(cs, values) ==
    IF cs = <<>> THEN None ELSE FindInClause(cs[1], 1, values)

\* Faulty variant: the last unset name of the scan is picked instead of the first
RECURSIVE FindLastFrom(_, _, _)
FindLastFrom(cs, i, values) ==
    IF i < 1 THEN None
    ELSE LET unset == SelectSeq(cs[i].names, LAMBDA n : ~InValues(n, values))
         IN IF unset # <<>> THEN unset[Len(unset)] ELSE FindLastFrom(cs, i - 1, values)

find_unset_last(cs, values) == FindLastFrom(cs, Len(cs), values)

find_unset_variable(cs, values) == FindFrom(cs, 1, values)

\* The else branch of _try_evaluate: the first clause that raises or
\* evaluates to false decides; "True" when the loop runs to its end.
RECURSIVE EvaluateFrom(_, _, _)
EvaluateFrom(cs, i, values) ==
    IF i > Len(cs) THEN "True"
    ELSE IF ClauseRaises(cs[i], values) THEN "error"
    ELSE IF ~ClauseEvaluate(cs[i], values) THEN "False"
    ELSE EvaluateFrom(cs, i + 1, values)

\* Faulty variant: `return True` inside the loop, only the first clause is checked
evaluate_first_clause_only(cs, values) ==
    IF cs = <<>> THEN "True"
    ELSE IF ClauseRaises(cs[1], values) THEN "error"
    ELSE IF ~ClauseEvaluate(cs[1], values) THEN "False"
    ELSE "True"

evaluate_clauses(cs, values) == EvaluateFrom(cs, 1, values)

\* variables[unset] = value: a new key is appended, an existing key keeps
\* its position (OrderedDict.__setitem__)
SetItem(values, n, v) ==
    IF InValues(n, values)
    THEN [i \in DOMAIN values |->
             IF values[i].name = n THEN [name |-> n, val |-> v] ELSE values[i]]
    ELSE Append(values, [name |-> n, val |-> v])

\* Faulty variant: popitem(last=False) removes the item inserted first
PopItemFirst(values) == SubSeq(values, 2, Len(values))

\* variables.popitem(): removes the item inserted last
PopItem(values) == SubSeq(values, 1, Len(values) - 1)

\* dict(result_variables): the plain mapping, insertion order dropped
ToDict(values) == [n \in Keys(values) |-> ValueOf(n, values)]

Pop(s) == SubSeq(s, 1, Len(s) - 1)
Top(s) == s[Len(s)]

\* Names are opaque keys to the solver (it only hashes and compares them), so
\* inputs are taken up to renaming: the k-th distinct name of an input, read
\* seed first and then clause by clause in scan order, is Fresh[k].  Fresh is
\* not alphabetical, so that scan order and name order differ.
Fresh == <<"c", "a", "b">>

\* Pre-seeded assignments: the empty OrderedDict, or one with a single item
Seeds == {<<>>} \cup {<<[name |-> Fresh[1], val |-> v]>> : v \in BOOLEAN}

\* The clause collection is a set of Clause objects (Clause.__eq__ compares
\* the literals), listed in its iteration order.
ClauseLists ==
    UNION {{cs \in [1..n -> Clauses] :
               \A i, j \in 1..n : i # j => cs[i].lits # cs[j].lits} :
              n \in 0..MaxClauses}

RECURSIVE ScanNames(_, _)
ScanNames(cs, i) ==
    IF i > Len(cs) THEN <<>> ELSE cs[i].names \o ScanNames(cs, i + 1)

\* The names of seq, each at its first occurrence
FirstSeen(seq) ==
    LET RECURSIVE Keep(_)
        Keep(i) ==
            IF i > Len(seq) THEN <<>>
            ELSE IF \E j \in 1..(i - 1) : seq[j] = seq[i] THEN Keep(i + 1)
            ELSE <<seq[i]>> \o Keep(i + 1)
    IN Keep(1)

NamedInOrder(cs, seed) ==
    LET seen == FirstSeen([i \in DOMAIN seed |-> seed[i].name] \o ScanNames(cs, 1))
    IN \A k \in DOMAIN seen : seen[k] = Fresh[k]

\* is_satisfiable(clauses, variables) up to its call of _try_evaluate
InitSat ==
    /\ clauses \in ClauseLists
    /\ variables \in Seeds
    /\ NamedInOrder(clauses, variables)
    /\ initial = variables
    /\ steps = 0
    /\ stack = <<>>
    /\ pc = "call"
    /\ ret = FALSE
    /\ entered = variables
    /\ result_variables = <<>>
    /\ IdleLit /\ IdlePol /\ IdleCmp

\* _try_evaluate, lines 146-149: an unset variable is found, bound to True,
\* and the function recurses
Branch ==
    /\ pc = "call"
    /\ LET unset == find_unset_variable(clauses, variables)
       IN /\ unset # None
          /\ stack' = Append(stack, [unset |-> unset, tried |-> TRUE,
                                     entry |-> variables])
          /\ variables' = SetItem(variables, unset, TRUE)
    /\ pc' = "call"
    /\ UNCHANGED <<clauses, ret, entered, initial, result_variables>>
    /\ steps' = steps + 1
    /\ UNCHANGED <<litVars, polVars, cmpVars>>

\* _try_evaluate, lines 160-164: no unset variable, the clauses are evaluated
Evaluate ==
    /\ pc = "call"
    /\ find_unset_variable(clauses, variables) = None
    /\ LET r == evaluate_clauses(clauses, variables)
       IN IF r = "error"
          THEN /\ pc' = "error"
               /\ UNCHANGED ret
          ELSE /\ pc' = "return"
               /\ ret' = (r = "True")
    /\ entered' = variables
    /\ UNCHANGED <<clauses, variables, stack, initial, result_variables>>
    /\ steps' = steps + 1
    /\ UNCHANGED <<litVars, polVars, cmpVars>>

\* lines 150-151 and 155-156: the recursive call was satisfiable, the level
\* returns the same verdict and the same mapping object
PropagateSat ==
    /\ pc = "return"
    /\ stack # <<>>
    /\ ret
    /\ stack' = Pop(stack)
    /\ entered' = Top(stack).entry
    /\ UNCHANGED <<clauses, variables, pc, ret, initial, result_variables>>
    /\ steps' = steps + 1
    /\ UNCHANGED <<litVars, polVars, cmpVars>>

\* Faulty variant: the False branch is never tried, a failed True branch is final
RebindFalseSkipped ==
    /\ pc = "return"
    /\ stack # <<>>
    /\ ~ret
    /\ Top(stack).tried
    /\ variables' = PopItem(variables)
    /\ stack' = Pop(stack)
    /\ entered' = Top(stack).entry
    /\ UNCHANGED <<clauses, pc, ret, initial, result_variables>>
    /\ steps' = steps + 1
    /\ UNCHANGED <<litVars, polVars, cmpVars>>

\* lines 152-154: the True branch failed, rebind to False and recurse
RebindFalse ==
    /\ pc = "return"
    /\ stack # <<>>
    /\ ~ret
    /\ Top(stack).tried
    /\ variables' = SetItem(variables, Top(stack).unset, FALSE)
    /\ stack' = [stack EXCEPT ![Len(stack)].tried = FALSE]
    /\ pc' = "call"
    /\ UNCHANGED <<clauses, ret, entered, initial, result_variables>>
    /\ steps' = steps + 1
    /\ UNCHANGED <<litVars, polVars, cmpVars>>

\* lines 157-159: both branches failed, popitem() and return False
Backtrack ==
    /\ pc = "return"
    /\ stack # <<>>
    /\ ~ret
    /\ ~Top(stack).tried
    /\ variables' = PopItem(variables)
    /\ stack' = Pop(stack)
    /\ entered' = Top(stack).entry
    /\ UNCHANGED <<clauses, pc, ret, initial, result_variables>>
    /\ steps' = steps + 1
    /\ UNCHANGED <<litVars, polVars, cmpVars>>

\* is_satisfiable, lines 187-188: the outermost level has returned
Finish ==
    /\ pc = "return"
    /\ stack = <<>>
    /\ pc' = "done"
    /\ result_variables' = ToDict(variables)
    /\ UNCHANGED <<clauses, variables, stack, ret, entered, initial>>
    /\ steps' = steps + 1
    /\ UNCHANGED <<litVars, polVars, cmpVars>>

NextSat == Branch \/ Evaluate \/ PropagateSat \/ RebindFalse \/ Backtrack \/ Finish

SpecSat == InitSat /\ [][NextSat]_vars


(***************************************************************************)
(* Reference semantics for the claims about the SAT engine: brute force    *)
(* over the total assignments, written without the engine's operators.     *)
(***************************************************************************)
ClauseVars == UNION {literal_names(clauses[i].lits) : i \in DOMAIN clauses}

SeedVars == {initial[i].name : i \in DOMAIN initial}

TotalAssignments == [ClauseVars \cup SeedVars -> BOOLEAN]

TrueUnder(c, f) == \E l \in c.lits : f[l.name] # l.neg

ExtendsSeed(f) == \A i \in DOMAIN initial : f[initial[i].name] = initial[i].val

SatisfyingExtensions ==
    {f \in TotalAssignments :
        ExtendsSeed(f) /\ \A i \in DOMAIN clauses : TrueUnder(clauses[i], f)}

\* The unseeded variables in order of first appearance in the scan
ScanOrder ==
    SelectSeq(FirstSeen(ScanNames(clauses, 1)), LAMBDA n : n \notin SeedVars)

\* f comes before g in depth-first order: at the first variable of the scan
\* order where they differ, f is true
DepthFirstBefore(f, g) ==
    \E k \in DOMAIN ScanOrder :
        /\ \A j \in 1..(k - 1) : f[ScanOrder[j]] = g[ScanOrder[j]]
        /\ f[ScanOrder[k]] /\ ~g[ScanOrder[k]]

Satisfiable == pc = "done" /\ ret

Unsatisfiable == pc = "done" /\ ~ret

\* C1 (SAT soundness): whenever is_satisfiable returns satisfiable = true, the
\* returned assignment binds every variable name that occurs in an input
\* clause and every input clause evaluates to true under it, for every
\* clause collection and every initial assignment.
C1_Soundness ==
    Satisfiable =>
        /\ ClauseVars \subseteq DOMAIN result_variables
        /\ \A i \in DOMAIN clauses : TrueUnder(clauses[i], result_variables)

\* A satisfiable verdict over two clauses, reached from a pre-seeded
\* assignment, with a variable bound to false by the search.
C1_Witness ==
    /\ Satisfiable
    /\ Len(clauses) = 2
    /\ initial # <<>>
    /\ \E n \in ClauseVars \ SeedVars : ~result_variables[n]

\* C2 (SAT completeness): called with no pre-seeded assignment, is_satisfiable
\* returns satisfiable = true if and only if brute-force enumeration of the
\* total assignments finds one that makes every clause true; the clauses {x}
\* and {~x} together yield satisfiable = false.
C2_Completeness ==
    (pc = "done" /\ initial = <<>>) =>
        /\ ret <=> (SatisfyingExtensions # {})
        /\ (\E x \in Names :
               {clauses[i].lits : i \in DOMAIN clauses} =
                   {{[name |-> x, neg |-> FALSE]}, {[name |-> x, neg |-> TRUE]}})
           => ~ret

\* The clauses {x} and {~x}, no seed: the verdict is unsatisfiable.
C2_Witness ==
    /\ Unsatisfiable
    /\ initial = <<>>
    /\ Len(clauses) = 2
    /\ \E x \in Names :
           /\ clauses[1].lits = {[name |-> x, neg |-> FALSE]}
           /\ clauses[2].lits = {[name |-> x, neg |-> TRUE]}

\* C8 (backtracking restores state): whenever a level of the search, the top
\* level included, reports unsatisfiable, the assignment is exactly what it
\* was when that level was entered: same names, same values, same insertion
\* order.
C8_BacktrackRestores ==
    /\ (pc = "return" /\ ~ret) => variables = entered
    /\ Unsatisfiable => variables = initial

\* An inner level that had bound a variable reports unsatisfiable above a
\* pre-seeded entry.
C8_Witness ==
    /\ pc = "return"
    /\ ~ret
    /\ stack # <<>>
    /\ initial # <<>>
    /\ Len(entered) > Len(initial)
    /\ find_unset_variable(clauses, entered) # None

\* C9 (true-before-false determinism): the assignment returned is the first
\* satisfying extension of the initial assignment in depth-first order
\* (variables ordered by first appearance in the scan, true before false),
\* and a variable is false in it only if no satisfying extension agrees with
\* it on all earlier variables and binds that variable to true.
C9_FirstInDepthFirstOrder ==
    Satisfiable =>
        /\ result_variables \in SatisfyingExtensions
        /\ \A g \in SatisfyingExtensions \ {result_variables} :
               DepthFirstBefore(result_variables, g)
        /\ \A k \in DOMAIN ScanOrder :
               ~result_variables[ScanOrder[k]] =>
                   ~\E g \in SatisfyingExtensions :
                       /\ \A j \in 1..(k - 1) :
                              g[ScanOrder[j]] = result_variables[ScanOrder[j]]
                       /\ g[ScanOrder[k]]

\* A result that binds a variable to false although other satisfying
\* extensions exist.
C9_Witness ==
    /\ Satisfiable
    /\ Cardinality(SatisfyingExtensions) > 1
    /\ \E k \in DOMAIN ScanOrder : ~result_variables[ScanOrder[k]]

\* Number of _try_evaluate invocations on the call stack
Depth == Len(stack) + (IF pc = "call" THEN 1 ELSE 0)

\* C10 (termination): is_satisfiable eventually returns a verdict: a call
\* that has not returned can always take its next step, and it takes at most
\* 2^(U+2) steps, U the number of distinct clause variables not in the
\* initial assignment; the recursion depth never exceeds U + 1; the final
\* evaluation is reached only with every clause variable bound, so the
\* undefined-variable error never occurs.
C10_Termination ==
    LET U == Cardinality(ClauseVars \ SeedVars)
    IN /\ steps <= 2 ^ (U + 2)
       /\ pc # "done" => ENABLED NextSat
       /\ Depth <= U + 1
       /\ pc # "error"
       /\ (pc = "call" /\ find_unset_variable(clauses, variables) = None)
              => ClauseVars \subseteq Keys(variables)

\* A verdict returned after the recursion reached its greatest depth, one
\* level per name plus the final evaluation, and had to backtrack.
C10_Witness ==
    /\ Satisfiable
    /\ initial = <<>>
    /\ ClauseVars = Names
    /\ \E n \in Names : ~result_variables[n]

(***************************************************************************)
(* sat.py: Literal.__init__ and Clause.from_string on character strings    *)
(***************************************************************************)
MaxStrLen == 3

\* One representative per class of character the code distinguishes
Letters == {"a"}
Digits == {"9"}
Alphabet == Letters \cup Digits \cup {"_", "-", "+", ".", "!", "~", "|", " "}

Strings == UNION {[1..n -> Alphabet] : n \in 0..MaxStrLen}

\* The character classes of _IS_VALID_LITERAL: [a-zA-Z_0-9] and [-+.\w\d]
FirstChars == Letters \cup Digits \cup {"_"}
RestChars == {"-", "+", "."} \cup Letters \cup Digits \cup {"_"}

\* The greedy [-+.\w\d]* from position i: the end of the longest run
RECURSIVE StarEnd(_, _)
StarEnd(name, i) ==
    IF i <= Len(name) /\ name[i] \in RestChars THEN StarEnd(name, i + 1) ELSE i - 1

\* _IS_VALID_LITERAL.match(name): the end of the match, which is anchored at
\* the start of the string only, or -1 for no match (None)
ReMatch(name) ==
    IF name # <<>> /\ name[1] \in FirstChars THEN StarEnd(name, 2) ELSE -1

\* Literal.__init__: `if not _IS_VALID_LITERAL.match(name): raise ValueError`
ValidLiteral(name) == ReMatch(name) # -1

\* str.split("|")
RECURSIVE Split(_)
Split(str) ==
    IF \E i \in DOMAIN str : str[i] = "|"
    THEN LET i == CHOOSE i \in DOMAIN str :
                      str[i] = "|" /\ \A j \in 1..(i - 1) : str[j] # "|"
         IN <<SubSeq(str, 1, i - 1)>> \o Split(SubSeq(str, i + 1, Len(str)))
    ELSE <<str>>

\* str.strip()
RECURSIVE Strip(_)
Strip(str) ==
    IF str # <<>> /\ str[1] = " " THEN Strip(Tail(str))
    ELSE IF str # <<>> /\ str[Len(str)] = " " THEN Strip(SubSeq(str, 1, Len(str) - 1))
    ELSE str

\* One segment of Clause.from_string: the literal built, or raised = TRUE
\* for the ValueError of line 60 or of Literal.__init__
Raised == [raised |-> TRUE, name |-> <<>>, neg |-> FALSE]

ParseLiteral(segment) ==
    LET literal_string == Strip(segment)
    IN IF literal_string # <<>> /\ literal_string[1] = "~"
       THEN IF Len(literal_string) < 2 THEN Raised
            ELSE IF ValidLiteral(Tail(literal_string))
                 THEN [raised |-> FALSE, name |-> Tail(literal_string), neg |-> TRUE]
                 ELSE Raised
       ELSE IF ValidLiteral(literal_string)
            THEN [raised |-> FALSE, name |-> literal_string, neg |-> FALSE]
            ELSE Raised

InitLit ==
    /\ IdleLit /\ IdleSat /\ IdlePol /\ IdleCmp

\* Literal(name)
ConstructLiteral ==
    /\ litOp = "none"
    /\ \E name \in Strings :
          /\ litInput' = name
          /\ IF ValidLiteral(name)
             THEN /\ litOutcome' = "ok"
                  /\ litResult' = {[name |-> name, neg |-> FALSE]}
             ELSE /\ litOutcome' = "ValueError"
                  /\ litResult' = {}
    /\ litOp' = "Literal"
    /\ UNCHANGED <<satVars, polVars, cmpVars>>

\* Clause.from_string(clause_string)
FromString ==
    /\ litOp = "none"
    /\ \E clause_string \in Strings :
          LET segments == Split(clause_string)
              parsed == [i \in DOMAIN segments |-> ParseLiteral(segments[i])]
          IN /\ litInput' = clause_string
             /\ IF \E i \in DOMAIN parsed : parsed[i].raised
                THEN /\ litOutcome' = "ValueError"
                     /\ litResult' = {}
                ELSE /\ litOutcome' = "ok"
                     /\ litResult' = {[name |-> parsed[i].name, neg |-> parsed[i].neg] :
                                         i \in DOMAIN parsed}
    /\ litOp' = "from_string"
    /\ UNCHANGED <<satVars, polVars, cmpVars>>

NextLit == ConstructLiteral \/ FromString

SpecLit == InitLit /\ [][NextLit]_vars

\* The whole name matches [A-Za-z_0-9][-+.\w]*
WholeNameMatches(name) ==
    /\ name # <<>>
    /\ name[1] \in FirstChars
    /\ \A i \in 2..Len(name) : name[i] \in RestChars

\* C3 (literal validity): constructing a Literal, directly or through
\* Clause.from_string, succeeds only when the whole name matches
\* [A-Za-z_0-9][-+.\w]*; the empty name, a name starting with '-', '+' or
\* '.', and a name with a character outside [A-Za-z0-9_.+-] anywhere in it
\* are rejected with the invalid-literal error.
C3_LiteralValidity ==
    /\ litOutcome = "ok" => \A l \in litResult : WholeNameMatches(l.name)
    /\ (litOp = "Literal" /\ ~WholeNameMatches(litInput)) => litOutcome = "ValueError"

(***************************************************************************)
(* policy.py: DefaultPolicy.prefered_package_ids, prune_to_best_version    *)
(***************************************************************************)
MaxVersion == 3
MaxQueue == 3

PackageIds == {1, 2, 3}
PackageNames == {"pkg", "other"}

\* Version objects, totally ordered: modelled as 1..MaxVersion
Versions == 1..MaxVersion

\* Pool.package_by_id(id): the Package with that id
Pools == [PackageIds -> [name : PackageNames, version : Versions]]

package_by_id(id) == pool[id]

DecisionQueues == UNION {[1..n -> PackageIds] : n \in 0..MaxQueue}

\* package_id_to_version: MaxVersion() for an installed id, package.version
\* otherwise
package_id_to_version(package_id) ==
    IF package_id \in installed_map
    THEN [max |-> TRUE, version |-> 0]
    ELSE [max |-> FALSE, version |-> package_by_id(package_id).version]

\* k1 < k2 on sort keys: MaxVersion() is above every real version and not
\* below itself
KeyLess(k1, k2) ==
    IF k1.max THEN FALSE
    ELSE IF k2.max THEN TRUE
    ELSE k1.version < k2.version

\* _compute_prefered_packages_installed_first: package name -> deque of ids,
\* installed ids pushed on the left, the others appended on the right
RECURSIVE GroupFrom(_, _, _)
GroupFrom(package_ids, i, queues) ==
    IF i > Len(package_ids) THEN queues
    ELSE LET package_id == package_ids[i]
             name == package_by_id(package_id).name
             deque == IF name \in DOMAIN queues THEN queues[name] ELSE <<>>
             pushed == IF package_id \in installed_map
                       THEN <<package_id>> \o deque
                       ELSE Append(deque, package_id)
         IN GroupFrom(package_ids, i + 1,
                      [n \in DOMAIN queues \cup {name} |->
                          IF n = name THEN pushed ELSE queues[n]])

compute_prefered_packages_installed_first(package_ids) ==
    GroupFrom(package_ids, 1, <<>>)

\* sorted(seq, key=...): stable, ascending, by `<` on the keys.  Each element
\* is inserted after the elements that are not greater than it.
RECURSIVE InsertSorted(_, _)
InsertSorted(sorted, x) ==
    IF sorted = <<>> THEN <<x>>
    ELSE IF KeyLess(package_id_to_version(x), package_id_to_version(sorted[Len(sorted)]))
         THEN Append(InsertSorted(SubSeq(sorted, 1, Len(sorted) - 1), x),
                     sorted[Len(sorted)])
         ELSE Append(sorted, x)

RECURSIVE SortedBy(_, _)
SortedBy(seq, n) ==
    IF n = 0 THEN <<>> ELSE InsertSorted(SortedBy(seq, n - 1), seq[n])

Reversed(seq) == [i \in 1..Len(seq) |-> seq[Len(seq) + 1 - i]]

\* Faulty variant: the [::-1] is missing, the queue stays in ascending order
sorted_ascending(package_queue) == SortedBy(package_queue, Len(package_queue))

\* line 67: sorted(package_queue, key=package_id_to_version)[::-1]
sorted_package_queue(package_queue) ==
    Reversed(SortedBy(package_queue, Len(package_queue)))

\* prune_to_best_version, lines 138-143: the loop over package_ids[1:]
RECURSIVE PruneFrom(_, _, _)
PruneFrom(package_ids, i, best_version_only) ==
    IF i > Len(package_ids) THEN best_version_only
    ELSE IF package_by_id(package_ids[i]).version < package_by_id(package_ids[1]).version
         THEN best_version_only
         ELSE PruneFrom(package_ids, i + 1, Append(best_version_only, package_ids[i]))

prune_to_best_version(package_ids) ==
    IF Len(package_ids) < 1 THEN <<>>
    ELSE PruneFrom(package_ids, 2, <<package_ids[1]>>)

\* Faulty variant: the multi-name test is off by one
more_than_two_names(package_queues) == Cardinality(DOMAIN package_queues) > 2

\* line 73: len(package_queues) > 1
more_than_one_name(package_queues) == Cardinality(DOMAIN package_queues) > 1

InitPol ==
    /\ pool \in Pools
    /\ installed_map \in SUBSET PackageIds
    /\ polOp = "none"
    /\ decision_queue = <<>>
    /\ polOutcome = "none"
    /\ polResult = <<>>
    /\ IdleSat /\ IdleLit /\ IdleCmp

\* DefaultPolicy.prefered_package_ids(pool, installed_map, decision_queue)
PreferedPackageIds ==
    /\ polOp = "none"
    /\ \E queue \in DecisionQueues :
          LET grouped == compute_prefered_packages_installed_first(queue)
              ranked == [n \in DOMAIN grouped |-> sorted_package_queue(grouped[n])]
              package_queues == [n \in DOMAIN ranked |-> prune_to_best_version(ranked[n])]
          IN /\ decision_queue' = queue
             /\ IF more_than_one_name(package_queues)
                THEN /\ polOutcome' = "NotImplementedError"
                     /\ polResult' = <<>>
                ELSE IF DOMAIN package_queues = {}
                THEN /\ polOutcome' = "DepSolverError"
                     /\ polResult' = <<>>
                ELSE /\ polOutcome' = "ok"
                     /\ polResult' = package_queues[CHOOSE n \in DOMAIN package_queues : TRUE]
    /\ polOp' = "prefered_package_ids"
    /\ UNCHANGED <<pool, installed_map, satVars, litVars, cmpVars>>

\* The queues prune_to_best_version assumes: sorted from max to min version
SortedMaxToMin(queue) ==
    \A i \in 1..(Len(queue) - 1) :
        package_by_id(queue[i]).version >= package_by_id(queue[i + 1]).version

\* prune_to_best_version(pool, package_ids) called on its own
PruneToBestVersion ==
    /\ polOp = "none"
    /\ \E queue \in DecisionQueues :
          /\ SortedMaxToMin(queue)
          /\ decision_queue' = queue
          /\ polResult' = prune_to_best_version(queue)
    /\ polOutcome' = "ok"
    /\ polOp' = "prune_to_best_version"
    /\ UNCHANGED <<pool, installed_map, satVars, litVars, cmpVars>>

NextPol == PreferedPackageIds \/ PruneToBestVersion

SpecPol == InitPol /\ [][NextPol]_vars

\* The package names the decision queue resolves to
QueueNames == {pool[decision_queue[i]].name : i \in DOMAIN decision_queue}

QueueIds == {decision_queue[i] : i \in DOMAIN decision_queue}

ResultIds == {polResult[i] : i \in DOMAIN polResult}

Prefered == polOp = "prefered_package_ids"

\* C4 (installed preference): for every decision queue whose ids share one
\* package name and that contains an installed id, in any input order, the
\* first id returned by prefered_package_ids is an installed id, even when
\* non-installed candidates have a strictly higher real version.
C4_InstalledFirst ==
    (/\ Prefered
     /\ Cardinality(QueueNames) = 1
     /\ QueueIds \cap installed_map # {})
        => /\ polOutcome = "ok"
           /\ polResult # <<>>
           /\ polResult[1] \in installed_map

\* The installed id is returned first although it came last in the queue,
\* behind a non-installed candidate of strictly higher version.
C4_Witness ==
    /\ Prefered
    /\ polOutcome = "ok"
    /\ Len(decision_queue) = MaxQueue
    /\ polResult[1] \in installed_map
    /\ decision_queue[1] \notin installed_map
    /\ decision_queue[Len(decision_queue)] = polResult[1]
    /\ \E id \in QueueIds \ installed_map :
           pool[id].version > pool[polResult[1]].version

\* Rank of an id under the ranking key: above every real version when the id
\* is installed, its real version otherwise
Rank(id) == IF id \in installed_map THEN MaxVersion + 1 ELSE pool[id].version

\* The length of the longest prefix of seq whose members rank as the first
RECURSIVE TiedPrefixLen(_, _)
TiedPrefixLen(seq, i) ==
    IF i <= Len(seq) /\ Rank(seq[i]) = Rank(seq[1])
    THEN TiedPrefixLen(seq, i + 1) ELSE i - 1

\* C5 (pruned result is the top-tied prefix): for a single-name decision
\* queue, the sequence returned by prefered_package_ids is exactly the
\* maximal prefix of the descending ranking whose members tie with the first
\* under the ranking key; no returned id ranks strictly below the first, so a
\* non-installed candidate is never returned alongside an installed one.  For
\* prune_to_best_version alone on an input sorted descending by version, the
\* result is exactly the ids whose version equals the first id's version, in
\* input order, and the empty input gives the empty result.
C5_TopTiedPrefix ==
    /\ (Prefered /\ polOutcome = "ok") =>
          LET ranking == sorted_package_queue(
                             compute_prefered_packages_installed_first(decision_queue)
                                 [CHOOSE n \in QueueNames : TRUE])
          IN /\ polResult = SubSeq(ranking, 1, TiedPrefixLen(ranking, 1))
             /\ \A id \in ResultIds : Rank(id) >= Rank(polResult[1])
             /\ ResultIds \cap installed_map # {} => ResultIds \subseteq installed_map
    /\ polOp = "prune_to_best_version" =>
          /\ polResult = SelectSeq(decision_queue,
                            LAMBDA id : pool[id].version = pool[decision_queue[1]].version)
          /\ decision_queue = <<>> => polResult = <<>>

\* C6 (error outcomes of prefered_package_ids): a decision queue whose ids
\* resolve to two or more package names always ends in the multi-name error
\* and never returns a sequence; an empty decision queue always ends in the
\* no-candidate error; a non-empty queue with exactly one package name
\* always returns a non-empty sequence of ids of the decision queue.
C6_ErrorOutcomes ==
    Prefered =>
        /\ Cardinality(QueueNames) >= 2 =>
               polOutcome = "NotImplementedError" /\ polResult = <<>>
        /\ decision_queue = <<>> => polOutcome = "DepSolverError"
        /\ (decision_queue # <<>> /\ Cardinality(QueueNames) = 1) =>
               /\ polOutcome = "ok"
               /\ polResult # <<>>
               /\ ResultIds \subseteq QueueIds

\* A queue of two package names, the first of them with an installed id,
\* ends in the multi-name error.
C6_Witness ==
    /\ Prefered
    /\ polOutcome = "NotImplementedError"
    /\ Cardinality(QueueNames) = 2
    /\ decision_queue[1] \in installed_map

(***************************************************************************)
(* policy.py: DefaultPolicy.cmp_by_priority_prefer_installed               *)
(***************************************************************************)
MaxId == 3

Repositories == {"repoA", "repoB"}

\* Package objects as the comparator reads them: id, repository (compared
\* by identity), name, and the names of the requirements in replaces
Packages ==
    [id : 1..MaxId, repository : Repositories, name : PackageNames,
     replaces : SUBSET PackageNames]

\* Pool.repository_priority(repository)
repository_priority(repository) == IF repository = "repoA" THEN 1 ELSE 2

\* DefaultPolicy._priority
priority(package) == repository_priority(package.repository)

\* DefaultPolicy._replaces(source, target)
replaces(source, target) == \E replace \in source.replaces : replace = target.name

\* Faulty variant: `a.id >= b.id` in place of `a.id > b.id`
cmp_ids_ge(a, b) == IF a.id >= b.id THEN 1 ELSE IF a.id < b.id THEN -1 ELSE 0

\* lines 105-110: the comparison of the ids
cmp_ids(a, b) == IF a.id > b.id THEN 1 ELSE IF a.id < b.id THEN -1 ELSE 0

\* DefaultPolicy.cmp_by_priority_prefer_installed(pool, installed_map, a, b,
\* required_package, ignore_replace)
cmp_by_priority_prefer_installed(installed, a, b, ignore_replace) ==
    IF a.repository = b.repository
    THEN IF ~ignore_replace /\ replaces(a, b) THEN 1
         ELSE IF ~ignore_replace /\ replaces(b, a) THEN -1
         ELSE cmp_ids(a, b)
    ELSE IF a.id \in installed THEN -1
         ELSE IF b.id \in installed THEN 1
         ELSE IF priority(a) > priority(b) THEN -1
         ELSE 1

InitCmp == IdleCmp /\ IdleSat /\ IdleLit /\ IdlePol

\* The comparator called on (a, b) and on (b, a)
Compare ==
    /\ cmpOp = "none"
    /\ \E a, b \in Packages, installed \in SUBSET (1..MaxId), ignore_replace \in BOOLEAN :
          /\ cmpA' = a
          /\ cmpB' = b
          /\ cmpInstalled' = installed
          /\ cmpIgnoreReplace' = ignore_replace
          /\ cmpAB' = cmp_by_priority_prefer_installed(installed, a, b, ignore_replace)
          /\ cmpBA' = cmp_by_priority_prefer_installed(installed, b, a, ignore_replace)
    /\ cmpOp' = "cmp"
    /\ UNCHANGED <<satVars, litVars, polVars>>

NextCmp == Compare

SpecCmp == InitCmp /\ [][NextCmp]_vars

\* The case of claim C7: one repository, and no replacement relation between
\* the two packages or ignore_replace set
NoReplaceSameRepository ==
    /\ cmpOp = "cmp"
    /\ cmpA.repository = cmpB.repository
    /\ \/ cmpIgnoreReplace
       \/ /\ cmpB.name \notin cmpA.replaces
          /\ cmpA.name \notin cmpB.replaces

\* C7 (comparator antisymmetry): for two packages of the same repository
\* where neither replaces the other's name (or with ignore_replace set),
\* cmp(a, b) = -cmp(b, a), its sign is that of the comparison of a.id with
\* b.id, it is 0 exactly when the ids are equal, and the installed map does
\* not affect the result.
C7_Antisymmetry ==
    NoReplaceSameRepository =>
        /\ cmpAB = -cmpBA
        /\ cmpAB > 0 <=> cmpA.id > cmpB.id
        /\ cmpAB < 0 <=> cmpA.id < cmpB.id
        /\ cmpAB = 0 <=> cmpA.id = cmpB.id
        /\ \A installed \in SUBSET (1..MaxId) :
               cmp_by_priority_prefer_installed(installed, cmpA, cmpB, cmpIgnoreReplace)
                   = cmpAB

\* Two packages of one repository with equal ids while one of them declares
\* a replacement that ignore_replace switches off, one being installed.
C7_Witness ==
    /\ NoReplaceSameRepository
    /\ cmpA.id = cmpB.id
    /\ cmpB.name \in cmpA.replaces
    /\ cmpAB = 0
    /\ cmpA.id \in cmpInstalled

====
